---- MODULE Spec2Model ----
(***************************************************************************)
(* The /act evaluation harness: eval.py (task source, shape validator,     *)
(* single-run executor) and compare_eval.py (multi-run comparator).        *)
(*                                                                         *)
(* JSON values are modelled by their Python type after json.loads:         *)
(* "dict", "list", "str", "int", "NoneType"; "absent" is a missing key.    *)
(* A float is modelled exactly: ok_rate as the pair <<ok, total>> (the     *)
(* quotient ok / total), avg_latency_ms in hundredths of a millisecond.    *)
(***************************************************************************)
EXTENDS Integers, Sequences, FiniteSets, TLC

VARIABLES
    \* eval.py: main / run_eval
    args,          \* the command line: tasks_file, num_tasks, repeat
    agent,         \* what the evaluated agent answers with (its environment)
    pc,            \* "start", "calls", "done" (exit 0), "crashed" (traceback)
    tasks,         \* the loaded task list
    r,             \* run_eval: outer loop variable
    idx,           \* run_eval: inner loop variable
    episodes,      \* run_eval: the episodes appended so far
    wire,          \* what the agent did on each call issued, in order
    out_file,      \* the file --out, once written
    raised,        \* the exception that ended eval.py, "" when none did
    \* eval.py: _validate_actions_shape, applied on its own
    payload,
    verdict,
    \* compare_eval.py: main
    runs,          \* the --runs tokens, in order
    cpc,           \* "start", "running", "done" (exit 0), "exited"
    run_specs,     \* the parsed RunSpecs
    launched,      \* the RunSpecs whose sub-run was launched, in order
    procs,         \* each launched sub-run: its return code and its calls
    out_dir,       \* whether data/compare was created
    files,         \* the files under data/compare: path -> content
    summary_rows,  \* the rows collected so far
    summary_file,  \* compare_summary.json, once written
    exit_code      \* the comparator's exit code, once it ended

evalVars == <<args, agent, pc, tasks, r, idx, episodes, wire, out_file, raised>>
shapeVars == <<payload, verdict>>
compareVars ==
    <<runs, cpc, run_specs, launched, procs, out_dir, files, summary_rows, summary_file,
      exit_code>>
vars == <<evalVars, shapeVars, compareVars>>

\* Bounds of the model.
MaxTasks == 2       \* --num-tasks ranges over -1 .. MaxTasks
MaxRepeat == 2      \* --repeat ranges over -1 .. MaxRepeat
MaxItems == 2       \* entries of a tasks file
MaxActions == 2     \* elements of a response's actions list
MaxRuns == 2        \* --runs tokens of one comparison

Max(a, b) == IF a >= b THEN a ELSE b

----------------------------------------------------------------------------
(* eval.py: _validate_actions_shape                                        *)

\* An element of the actions list: its Python type, and for a dict the type of
\* its "type" value ("absent" when the key is missing, "NoneType" for null).
ActionElems ==
    {[kind |-> k, type |-> "absent"] : k \in {"str", "NoneType"}}
    \cup {[kind |-> "dict", type |-> t] : t \in {"absent", "NoneType", "str", "int"}}

ActionLists == UNION {[1..n -> ActionElems] : n \in 0..MaxActions}

\* A decoded response body: its Python type, and for a dict the type of its
\* "actions" value and, when that is a list, its elements.
Bodies ==
    {[kind |-> k, actions_kind |-> "absent", actions |-> <<>>] :
        k \in {"NoneType", "list", "str", "int"}}
    \cup {[kind |-> "dict", actions_kind |-> a, actions |-> <<>>] :
        a \in {"absent", "NoneType", "str", "dict"}}
    \cup {[kind |-> "dict", actions_kind |-> "list", actions |-> l] : l \in ActionLists}

\* eval.py:79-80: action.get("type") is None for a missing key and for null.
TypeOk(t) == t \in {"absent", "NoneType"} \/ t = "str"

\* eval.py:76-82: the loop over the elements, from Python index i - 1.
RECURSIVE CheckActions(_, _)
CheckActions(actions, i) ==
    IF i > Len(actions) THEN <<TRUE, "ok">>
    ELSE IF actions[i].kind # "dict"
        THEN <<FALSE, "actions[" \o ToString(i - 1) \o "] is not an object">>
    ELSE IF ~TypeOk(actions[i].type)
        THEN <<FALSE, "actions[" \o ToString(i - 1) \o "].type must be a string when present">>
    ELSE CheckActions(actions, i + 1)

validate_actions_shape(body) ==
    IF body.kind # "dict"
        THEN <<FALSE, "response is not an object (" \o body.kind \o ")">>
    ELSE IF body.actions_kind # "list"
        THEN <<FALSE, "missing or invalid 'actions' list">>
    ELSE CheckActions(body.actions, 1)

----------------------------------------------------------------------------
(* eval.py: _default_tasks, _load_tasks                                    *)

\* The value of one key of a tasks-file entry: its Python type, the text of a
\* str, the value of an int, the length of a list.
Absent == [kind |-> "absent", s |-> "", n |-> 0]
Null == [kind |-> "NoneType", s |-> "", n |-> 0]
IntV(n) == [kind |-> "int", s |-> "", n |-> n]
StrV(s) == [kind |-> "str", s |-> s, n |-> 0]
ListV(n) == [kind |-> "list", s |-> "", n |-> n]

MaxStep == 3        \* the largest step_index a tasks file holds

\* Python truthiness, the left operand of  x or default.
Truthy(v) ==
    CASE v.kind = "int" -> v.n # 0
      [] v.kind = "str" -> v.s # ""
      [] v.kind = "list" -> v.n > 0
      [] OTHER -> FALSE

\* str(x) of a truthy value.
PyStr(v) ==
    CASE v.kind = "int" -> ToString(v.n)
      [] v.kind = "str" -> v.s
      [] OTHER -> "[...]"

\* int(x) of a truthy value: the value, or the exception it raises.
PyInt(v) ==
    CASE v.kind = "int" -> [raised |-> "", n |-> v.n]
      [] v.kind = "str" ->
            IF \E n \in 0..MaxStep : ToString(n) = v.s
            THEN [raised |-> "", n |-> CHOOSE n \in 0..MaxStep : ToString(n) = v.s]
            ELSE [raised |-> "ValueError: invalid literal for int()", n |-> 0]
      [] OTHER -> [raised |-> "TypeError: int() argument must be a string or a number", n |-> 0]

\* eval.py:63: int(item.get("step_index") or 0).
StepIndex(item) ==
    IF Truthy(item.step_index) THEN PyInt(item.step_index) ELSE [raised |-> "", n |-> 0]

\* eval.py:57-66: the Task built from entry i (Python index) of the file.
TaskOf(item, i) ==
    [task_id |-> IF Truthy(item.task_id) THEN PyStr(item.task_id)
                 ELSE "task-" \o ToString(i),
     prompt |-> IF Truthy(item.prompt) THEN PyStr(item.prompt) ELSE "Template task",
     url |-> IF Truthy(item.url) THEN PyStr(item.url) ELSE "https://example.com",
     snapshot_html |-> IF Truthy(item.snapshot_html) THEN PyStr(item.snapshot_html)
                       ELSE "<html></html>",
     step_index |-> StepIndex(item).n,
     history |-> IF item.history.kind = "list" THEN item.history.n ELSE 0]

\* eval.py:23-36.
RECURSIVE DefaultTasksFrom(_, _)
DefaultTasksFrom(i, n) ==
    IF i >= n THEN <<>>
    ELSE <<[task_id |-> "template-task-" \o ToString(i),
            prompt |-> "Template task for /act schema validation",
            url |-> "https://example.com",
            snapshot_html |-> "<html><body><button>Continue</button></body></html>",
            step_index |-> i,
            history |-> 0]>> \o DefaultTasksFrom(i + 1, n)

default_tasks(num_tasks) == DefaultTasksFrom(0, Max(1, num_tasks))

\* eval.py:55-56: isinstance(item, dict).
KeepItem(item) == item.kind = "dict"

\* eval.py:53-67: the loop over the entries, from index i; acc is the list so far.
RECURSIVE LoadItems(_, _, _)
LoadItems(data, i, acc) ==
    IF i > Len(data) THEN [raised |-> "", tasks |-> acc]
    ELSE IF ~KeepItem(data[i]) THEN LoadItems(data, i + 1, acc)
    ELSE IF StepIndex(data[i]).raised # ""
        THEN [raised |-> StepIndex(data[i]).raised, tasks |-> <<>>]
    ELSE LoadItems(data, i + 1, Append(acc, TaskOf(data[i], i - 1)))

NoFile == [kind |-> "absent", tasks_kind |-> "absent", data |-> <<>>]

FormatError == "ValueError: tasks file must be a JSON list or {'tasks':[...]} object"

\* eval.py:39-67. A file is its top-level Python type, for a dict the type of its
\* "tasks" value, and the entries of the list (the file's own, or that of "tasks").
load_tasks(file, fallback_num_tasks) ==
    IF file = NoFile THEN [raised |-> "", tasks |-> default_tasks(fallback_num_tasks)]
    ELSE IF file.kind = "dict" /\ file.tasks_kind = "list" THEN LoadItems(file.data, 1, <<>>)
    ELSE IF file.kind = "list" THEN LoadItems(file.data, 1, <<>>)
    ELSE [raised |-> FormatError, tasks |-> <<>>]

\* The entries a tasks file may hold.
PlainItem(k) ==
    [kind |-> k, task_id |-> Absent, prompt |-> Absent, url |-> Absent,
     snapshot_html |-> Absent, step_index |-> Absent, history |-> Absent]

DictItem(tid, step, hist) ==
    [kind |-> "dict", task_id |-> tid, prompt |-> Absent, url |-> Absent,
     snapshot_html |-> Absent, step_index |-> step, history |-> hist]

FileItems ==
    {PlainItem("str"), PlainItem("NoneType")}
    \cup {DictItem(tid, Absent, Absent) : tid \in {Absent, StrV(""), StrV("A")}}
    \cup {DictItem(Absent, step, Absent) :
            step \in {IntV(MaxStep), StrV(ToString(MaxStep)), StrV("abc"), ListV(1)}}
    \cup {DictItem(Absent, Absent, hist) : hist \in {StrV("h"), ListV(1)}}
    \cup {DictItem(StrV("A"), StrV("abc"), ListV(1))}

ItemLists == UNION {[1..n -> FileItems] : n \in 0..MaxItems}

TaskFiles ==
    {[kind |-> "list", tasks_kind |-> "absent", data |-> d] : d \in ItemLists}
    \cup {[kind |-> "dict", tasks_kind |-> "list", data |-> d] : d \in ItemLists}
    \cup {[kind |-> "dict", tasks_kind |-> k, data |-> <<>>] : k \in {"absent", "str"}}
    \cup {[kind |-> k, tasks_kind |-> "absent", data |-> <<>>] : k \in {"str", "NoneType"}}

----------------------------------------------------------------------------
(* eval.py: _call_act, run_eval, main                                      *)

NoBody == [kind |-> "NoneType", actions_kind |-> "absent", actions |-> <<>>]
EmptyActions == [kind |-> "dict", actions_kind |-> "list", actions |-> <<>>]
OneClick == [kind |-> "dict", actions_kind |-> "list",
             actions |-> <<[kind |-> "dict", type |-> "str"]>>]
NoActions == [kind |-> "dict", actions_kind |-> "absent", actions |-> <<>>]

\* What one POST /act comes to. "response": a status and a body that decodes as
\* JSON (an empty body decodes to None); "undecodable": a status and a body that
\* is not JSON; "timeout", "refused": no HTTP exchange at all.
Response(status, body, ms) ==
    [kind |-> "response", status |-> status, body |-> body, elapsed_ms |-> ms]
Undecodable(status) ==
    [kind |-> "undecodable", status |-> status, body |-> NoBody, elapsed_ms |-> 0]
Timeout == [kind |-> "timeout", status |-> 0, body |-> NoBody, elapsed_ms |-> 0]
Refused == [kind |-> "refused", status |-> 0, body |-> NoBody, elapsed_ms |-> 0]

\* The evaluated agents: each is the set of outcomes its calls may have.
Agents == {"flaky", "shapes", "http500"}

AgentOutcomes(a) ==
    CASE a = "flaky" ->
            {Response(200, EmptyActions, 10), Timeout, Refused, Undecodable(200)}
      [] a = "shapes" ->
            {Response(200, OneClick, 5), Response(200, NoActions, 7),
             Response(201, EmptyActions, 5)}
      [] a = "http500" ->
            {Response(500, EmptyActions, 3), Response(500, NoBody, 4), Undecodable(500)}

\* str(exc) of the exception _call_act raises; asyncio.TimeoutError has no text.
ErrorText(o) ==
    CASE o.kind = "timeout" -> ""
      [] o.kind = "refused" -> "Cannot connect to host"
      [] OTHER -> "Expecting value: line 1 column 1 (char 0)"

\* A variant of Raises: an undecodable body is taken for an empty one.
RaisesOnTransportOnly(o) == o.kind \in {"timeout", "refused"}

\* eval.py:92-93: session.post or resp.json raises.
Raises(o) == o.kind # "response"

\* A variant of CallOk: the shape of the body is not looked at.
CallOkAnyShape(status, shape_ok) == status = 200

\* A variant of CallOk: any status passes.
CallOkAnyStatus(status, shape_ok) == shape_ok

\* eval.py:132.
CallOk(status, shape_ok) == (status = 200) /\ shape_ok

\* A variant of NewResult: repeat_index and task_index are exchanged.
NewResultSwapped(rr, i, task) ==
    [repeat_index |-> i, task_index |-> rr, task_id |-> task.task_id, ok |-> FALSE]

\* eval.py:115-120.
NewResult(rr, i, task) ==
    [repeat_index |-> rr, task_index |-> i, task_id |-> task.task_id, ok |-> FALSE]

\* eval.py:115-134: the episode of task i (Python index) in repeat rr, the call
\* having come to o. The keys set in the try block replace those of the new
\* result; an exception leaves the result with the keys it had, plus error.
Episode(rr, i, task, o) ==
    LET shape == validate_actions_shape(o.body)
    IN  IF Raises(o) THEN ("error" :> ErrorText(o)) @@ NewResult(rr, i, task)
        ELSE [status |-> o.status,
              elapsed_ms |-> o.elapsed_ms,
              shape_ok |-> shape[1],
              shape_msg |-> shape[2],
              action_count |-> IF o.body.kind = "dict" /\ o.body.actions_kind = "list"
                               THEN Len(o.body.actions) ELSE 0,
              ok |-> CallOk(o.status, shape[1])] @@ NewResult(rr, i, task)

RECURSIVE GCD(_, _)
GCD(a, b) == IF b = 0 THEN a ELSE GCD(b, a % b)

\* The float n / d, d > 0, as a fraction in lowest terms.
Quotient(n, d) == [num |-> n \div GCD(n, d), den |-> d \div GCD(n, d)]
Zero == [num |-> 0, den |-> 1]

\* round(n / d, 2) in hundredths, n >= 0, d > 0: to nearest, a tie to even.
Round2(n, d) ==
    LET q == (100 * n) \div d
        rem == (100 * n) % d
    IN  IF 2 * rem > d \/ (2 * rem = d /\ q % 2 = 1) THEN q + 1 ELSE q

RECURSIVE SumElapsed(_)
SumElapsed(eps) ==
    IF eps = <<>> THEN 0
    ELSE (IF "elapsed_ms" \in DOMAIN Head(eps) THEN Head(eps).elapsed_ms ELSE 0)
         + SumElapsed(Tail(eps))

\* A variant of OkCount: every episode that got an HTTP status counts.
OkCountByStatus(eps) == Cardinality({i \in 1..Len(eps) : "status" \in DOMAIN eps[i]})

\* eval.py:137.
OkCount(eps) == Cardinality({i \in 1..Len(eps) : eps[i].ok})

\* eval.py:137-150.
Summary(eps) ==
    [total_calls |-> Len(eps),
     ok_calls |-> OkCount(eps),
     ok_rate |-> IF eps # <<>> THEN Quotient(OkCount(eps), Len(eps)) ELSE Zero,
     avg_latency_ms |-> IF eps # <<>> THEN Round2(SumElapsed(eps), Len(eps)) ELSE 0]

\* eval.py:140-151.
RunResult(ts, repeat, eps) ==
    [num_tasks |-> Len(ts), repeat |-> repeat, episodes |-> eps, summary |-> Summary(eps)]

\* eval.py:113: max(1, int(repeat)).
Repeats(repeat) == Max(1, repeat)

\* The tasks files the runs are given.
RunFiles ==
    {[kind |-> "list", tasks_kind |-> "absent", data |-> <<>>],
     [kind |-> "list", tasks_kind |-> "absent",
      data |-> <<DictItem(StrV("A"), Absent, Absent), PlainItem("str"),
                 DictItem(Absent, IntV(MaxStep), ListV(1))>>],
     [kind |-> "dict", tasks_kind |-> "list", data |-> <<DictItem(StrV("A"), Absent, Absent)>>],
     [kind |-> "dict", tasks_kind |-> "absent", data |-> <<>>],
     [kind |-> "list", tasks_kind |-> "absent",
      data |-> <<DictItem(StrV("A"), StrV("abc"), Absent)>>]}

EvalInit ==
    /\ args \in {[tasks_file |-> NoFile, num_tasks |-> n, repeat |-> k] :
                    n \in (-1)..MaxTasks, k \in (-1)..MaxRepeat}
                \cup {[tasks_file |-> f, num_tasks |-> 5, repeat |-> k] :
                    f \in RunFiles, k \in (-1)..MaxRepeat}
    /\ agent \in Agents
    /\ pc = "start"
    /\ tasks = <<>>
    /\ r = 0
    /\ idx = 0
    /\ episodes = <<>>
    /\ wire = <<>>
    /\ out_file = <<>>
    /\ raised = ""

\* eval.py:164 when _load_tasks raises: a traceback, exit code 1, nothing written.
StartCrash ==
    /\ pc = "start"
    /\ load_tasks(args.tasks_file, args.num_tasks).raised # ""
    /\ pc' = "crashed"
    /\ raised' = load_tasks(args.tasks_file, args.num_tasks).raised
    /\ UNCHANGED <<args, agent, tasks, r, idx, episodes, wire, out_file>>

\* eval.py:164-176 with no task to call: run_eval's loops are empty.
StartEmpty ==
    /\ pc = "start"
    /\ LET loaded == load_tasks(args.tasks_file, args.num_tasks)
       IN  /\ loaded.raised = ""
           /\ loaded.tasks = <<>>
           /\ out_file' = <<RunResult(<<>>, args.repeat, <<>>)>>
    /\ pc' = "done"
    /\ UNCHANGED <<args, agent, tasks, r, idx, episodes, wire, raised>>

\* eval.py:164-122: up to the first await of _call_act.
Start ==
    /\ pc = "start"
    /\ LET loaded == load_tasks(args.tasks_file, args.num_tasks)
       IN  /\ loaded.raised = ""
           /\ loaded.tasks # <<>>
           /\ tasks' = loaded.tasks
    /\ pc' = "calls"
    /\ UNCHANGED <<args, agent, r, idx, episodes, wire, out_file, raised>>

\* eval.py:122-135: one call returns or raises, its episode is appended, and
\* the loops go on to the next call.
Call ==
    /\ pc = "calls"
    /\ ~(r = Repeats(args.repeat) - 1 /\ idx = Len(tasks) - 1)
    /\ \E o \in AgentOutcomes(agent) :
        /\ wire' = Append(wire, o)
        /\ episodes' = Append(episodes, Episode(r, idx, tasks[idx + 1], o))
    /\ IF idx = Len(tasks) - 1 THEN r' = r + 1 /\ idx' = 0
                               ELSE r' = r /\ idx' = idx + 1
    /\ UNCHANGED <<args, agent, pc, tasks, out_file, raised>>

\* eval.py:122-176: the last call, the summary, and the write of --out.
LastCall ==
    /\ pc = "calls"
    /\ r = Repeats(args.repeat) - 1 /\ idx = Len(tasks) - 1
    /\ \E o \in AgentOutcomes(agent) :
        /\ wire' = Append(wire, o)
        /\ episodes' = Append(episodes, Episode(r, idx, tasks[idx + 1], o))
        /\ out_file' = <<RunResult(tasks, args.repeat,
                                   Append(episodes, Episode(r, idx, tasks[idx + 1], o)))>>
    /\ pc' = "done"
    /\ UNCHANGED <<args, agent, tasks, r, idx, raised>>

----------------------------------------------------------------------------
(* compare_eval.py: RunSpec.slug, _parse_run, main                         *)
(* A --runs token, a provider, a model and a slug are sequences of         *)
(* one-character strings.                                                  *)

\* str.lower on one character.
LowerChar(c) == CASE c = "A" -> "a" [] c = "M" -> "m" [] OTHER -> c

Lower(s) == [i \in 1..Len(s) |-> LowerChar(s[i])]

RECURSIVE LStrip(_)
LStrip(s) == IF s # <<>> /\ Head(s) = " " THEN LStrip(Tail(s)) ELSE s

RECURSIVE RStrip(_)
RStrip(s) == IF s # <<>> /\ s[Len(s)] = " " THEN RStrip(SubSeq(s, 1, Len(s) - 1)) ELSE s

\* A variant of Strip: the text is used as typed.
StripNothing(s) == s

\* str.strip.
Strip(s) == RStrip(LStrip(s))

\* compare_eval.py:32: the characters re.sub leaves alone.
SlugSafe(c) == c \in {"a", "b", "m", ".", "_", "-"}

\* compare_eval.py:32: every run of other characters becomes one "_".
RECURSIVE Collapse(_, _)
Collapse(s, inRun) ==
    IF s = <<>> THEN <<>>
    ELSE IF SlugSafe(Head(s)) THEN <<Head(s)>> \o Collapse(Tail(s), FALSE)
    ELSE IF inRun THEN Collapse(Tail(s), TRUE)
    ELSE <<"_">> \o Collapse(Tail(s), TRUE)

\* compare_eval.py:29-32.
slug(spec) == Collapse(Lower(spec.provider \o <<"_", "_">> \o spec.model), FALSE)

FirstColon(raw) == CHOOSE i \in 1..Len(raw) : raw[i] = ":" /\ \A j \in 1..(i - 1) : raw[j] # ":"

NoSpec == [provider |-> <<>>, model |-> <<>>]

\* compare_eval.py:35-43: the RunSpec, or the SystemExit it raises.
parse_run(raw) ==
    IF \A i \in 1..Len(raw) : raw[i] # ":"
    THEN [raised |-> "Invalid run. Use provider:model", spec |-> NoSpec]
    ELSE LET provider == Lower(Strip(SubSeq(raw, 1, FirstColon(raw) - 1)))
             model == Strip(SubSeq(raw, FirstColon(raw) + 1, Len(raw)))
         IN  IF provider = <<>> \/ model = <<>>
             THEN [raised |-> "Invalid run", spec |-> NoSpec]
             ELSE [raised |-> "", spec |-> [provider |-> provider, model |-> model]]

\* The --runs tokens of the comparisons: a:m, A:m (the same configuration),
\* a:M (another model, the same slug), b:m, and the invalid am, :m, " :m", "a: ".
Tokens ==
    {<<"a", ":", "m">>, <<"A", ":", "m">>, <<"a", ":", "M">>, <<"b", ":", "m">>,
     <<"a", "m">>, <<":", "m">>, <<" ", ":", "m">>, <<"a", ":", " ">>}

TokenLists == UNION {[1..n -> Tokens] : n \in 1..MaxRuns}

\* The shared eval parameters of the comparisons, and what a sub-run's calls
\* may come to.
CompareArgs == [tasks_file |-> NoFile, num_tasks |-> 1, repeat |-> 2]
CompareOutcomes == {Response(200, EmptyActions, 10), Response(200, EmptyActions, 30), Refused}

\* run_eval as a function of what its calls came to, in call order.
EpisodesOf(ts, outcomes) ==
    [p \in 1..Len(outcomes) |->
        Episode((p - 1) \div Len(ts), (p - 1) % Len(ts), ts[((p - 1) % Len(ts)) + 1],
                outcomes[p])]

\* eval.py as a sub-process of the comparator, exiting 0: the file it writes.
SubRunFile(outcomes) ==
    LET ts == load_tasks(CompareArgs.tasks_file, CompareArgs.num_tasks).tasks
    IN  RunResult(ts, CompareArgs.repeat, EpisodesOf(ts, outcomes))

SubRunCalls ==
    Len(load_tasks(CompareArgs.tasks_file, CompareArgs.num_tasks).tasks)
    * Repeats(CompareArgs.repeat)

\* The return codes of a sub-run that fails: 1 for an uncaught exception, 2
\* when python cannot open the script.
FailCodes == {1, 2}

\* A variant of AbortCode: every failure exits 1.
AbortCodeOne(returncode) == 1

\* compare_eval.py:91-92: raise SystemExit(proc.returncode).
AbortCode(returncode) == returncode

\* compare_eval.py:94-106.
Row(spec, file) ==
    [provider |-> spec.provider,
     model |-> spec.model,
     ok_calls |-> file.summary.ok_calls,
     total_calls |-> file.summary.total_calls,
     ok_rate |-> file.summary.ok_rate,
     avg_latency_ms |-> file.summary.avg_latency_ms,
     out |-> slug(spec)]

\* a < b for the floats a, b held as fractions.
FracLess(a, b) == a.num * b.den < b.num * a.den

\* A variant of KeyLess: the rows are ordered by ok_rate alone.
KeyLessRateOnly(a, b) == FracLess(b.ok_rate, a.ok_rate)

\* compare_eval.py:108: the key (-ok_rate, avg_latency_ms) of a is below that of b.
KeyLess(a, b) ==
    \/ FracLess(b.ok_rate, a.ok_rate)
    \/ a.ok_rate = b.ok_rate /\ a.avg_latency_ms < b.avg_latency_ms

\* list.sort is stable: a row goes behind every row whose key is not above its own.
RECURSIVE InsertRow(_, _)
InsertRow(sorted, row) ==
    IF sorted = <<>> THEN <<row>>
    ELSE IF KeyLess(row, Head(sorted)) THEN <<row>> \o sorted
    ELSE <<Head(sorted)>> \o InsertRow(Tail(sorted), row)

RECURSIVE SortRows(_)
SortRows(rows) ==
    IF rows = <<>> THEN <<>>
    ELSE InsertRow(SortRows(SubSeq(rows, 1, Len(rows) - 1)), rows[Len(rows)])

CompareInit ==
    /\ runs \in TokenLists
    /\ cpc = "start"
    /\ run_specs = <<>>
    /\ launched = <<>>
    /\ procs = <<>>
    /\ out_dir = FALSE
    /\ files = <<>>
    /\ summary_rows = <<>>
    /\ summary_file = <<>>
    /\ exit_code = <<>>

\* compare_eval.py:56-59: a token _parse_run rejects ends the comparator.
ParseFails ==
    /\ cpc = "start"
    /\ \E i \in 1..Len(runs) : parse_run(runs[i]).raised # ""
    /\ cpc' = "exited"
    /\ exit_code' = <<1>>
    /\ UNCHANGED <<runs, run_specs, launched, procs, out_dir, files, summary_rows,
                   summary_file>>

\* compare_eval.py:56-64: every token parses, the output directory is made.
Parse ==
    /\ cpc = "start"
    /\ \A i \in 1..Len(runs) : parse_run(runs[i]).raised = ""
    /\ run_specs' = [i \in 1..Len(runs) |-> parse_run(runs[i]).spec]
    /\ out_dir' = TRUE
    /\ cpc' = "running"
    /\ UNCHANGED <<runs, launched, procs, files, summary_rows, summary_file, exit_code>>

\* compare_eval.py:66-92: the next sub-run is launched and exits non-zero.
SubRunFails ==
    /\ cpc = "running"
    /\ \E code \in FailCodes :
        /\ procs' = Append(procs, [returncode |-> code, outcomes |-> <<>>])
        /\ exit_code' = <<AbortCode(code)>>
    /\ launched' = Append(launched, run_specs[Len(launched) + 1])
    /\ cpc' = "exited"
    /\ UNCHANGED <<runs, run_specs, out_dir, files, summary_rows, summary_file>>

\* compare_eval.py:66-106: the next sub-run is launched, writes its file and
\* exits 0; the file is read back and its row appended.
SubRun ==
    /\ cpc = "running"
    /\ Len(launched) + 1 < Len(run_specs)
    /\ LET spec == run_specs[Len(launched) + 1]
       IN  \E outcomes \in [1..SubRunCalls -> CompareOutcomes] :
            /\ procs' = Append(procs, [returncode |-> 0, outcomes |-> outcomes])
            /\ files' = (slug(spec) :> SubRunFile(outcomes)) @@ files
            /\ summary_rows' = Append(summary_rows, Row(spec, SubRunFile(outcomes)))
            /\ launched' = Append(launched, spec)
    /\ UNCHANGED <<runs, cpc, run_specs, out_dir, summary_file, exit_code>>

\* compare_eval.py:66-120: the last sub-run exits 0; the rows are sorted and
\* compare_summary.json is written.
LastSubRun ==
    /\ cpc = "running"
    /\ Len(launched) + 1 = Len(run_specs)
    /\ LET spec == run_specs[Len(launched) + 1]
       IN  \E outcomes \in [1..SubRunCalls -> CompareOutcomes] :
            /\ procs' = Append(procs, [returncode |-> 0, outcomes |-> outcomes])
            /\ files' = (slug(spec) :> SubRunFile(outcomes)) @@ files
            /\ summary_rows' =
                    SortRows(Append(summary_rows, Row(spec, SubRunFile(outcomes))))
            /\ summary_file' =
                    <<SortRows(Append(summary_rows, Row(spec, SubRunFile(outcomes))))>>
            /\ launched' = Append(launched, spec)
    /\ cpc' = "done"
    /\ exit_code' = <<0>>
    /\ UNCHANGED <<runs, run_specs, out_dir>>

----------------------------------------------------------------------------
(* The specifications. Each runs one program and leaves the others' state  *)
(* at rest.                                                                *)

EvalIdle ==
    /\ args = [tasks_file |-> NoFile, num_tasks |-> 5, repeat |-> 1]
    /\ agent = "flaky"
    /\ pc = "idle"
    /\ tasks = <<>>
    /\ r = 0
    /\ idx = 0
    /\ episodes = <<>>
    /\ wire = <<>>
    /\ out_file = <<>>
    /\ raised = ""

ShapeIdle == payload = NoBody /\ verdict = <<>>

CompareIdle ==
    /\ runs = <<>>
    /\ cpc = "idle"
    /\ run_specs = <<>>
    /\ launched = <<>>
    /\ procs = <<>>
    /\ out_dir = FALSE
    /\ files = <<>>
    /\ summary_rows = <<>>
    /\ summary_file = <<>>
    /\ exit_code = <<>>

\* eval.py, one run.
Init == EvalInit /\ ShapeIdle /\ CompareIdle

Next ==
    \/ StartCrash /\ UNCHANGED <<shapeVars, compareVars>>
    \/ StartEmpty /\ UNCHANGED <<shapeVars, compareVars>>
    \/ Start /\ UNCHANGED <<shapeVars, compareVars>>
    \/ Call /\ UNCHANGED <<shapeVars, compareVars>>
    \/ LastCall /\ UNCHANGED <<shapeVars, compareVars>>

Spec == Init /\ [][Next]_vars

\* _validate_actions_shape on every body.
ShapeInit == payload \in Bodies /\ verdict = <<>> /\ EvalIdle /\ CompareIdle

Validate ==
    /\ verdict = <<>>
    /\ verdict' = validate_actions_shape(payload)
    /\ UNCHANGED <<payload, evalVars, compareVars>>

ShapeNext == Validate

SpecShape == ShapeInit /\ [][ShapeNext]_vars

\* _load_tasks on every tasks file.
LoadInit ==
    /\ args \in {[tasks_file |-> f, num_tasks |-> 5, repeat |-> 1] : f \in TaskFiles}
    /\ agent = "flaky"
    /\ pc = "start"
    /\ tasks = <<>>
    /\ r = 0
    /\ idx = 0
    /\ episodes = <<>>
    /\ wire = <<>>
    /\ out_file = <<>>
    /\ raised = ""
    /\ ShapeIdle
    /\ CompareIdle

\* eval.py:164 when _load_tasks returns.
Load ==
    /\ pc = "start"
    /\ load_tasks(args.tasks_file, args.num_tasks).raised = ""
    /\ tasks' = load_tasks(args.tasks_file, args.num_tasks).tasks
    /\ pc' = "loaded"
    /\ UNCHANGED <<args, agent, r, idx, episodes, wire, out_file, raised>>

LoadNext ==
    \/ Load /\ UNCHANGED <<shapeVars, compareVars>>
    \/ StartCrash /\ UNCHANGED <<shapeVars, compareVars>>

SpecLoad == LoadInit /\ [][LoadNext]_vars

\* compare_eval.py, one comparison.
CompareStart == CompareInit /\ EvalIdle /\ ShapeIdle

CompareNext ==
    \/ ParseFails /\ UNCHANGED <<evalVars, shapeVars>>
    \/ Parse /\ UNCHANGED <<evalVars, shapeVars>>
    \/ SubRunFails /\ UNCHANGED <<evalVars, shapeVars>>
    \/ SubRun /\ UNCHANGED <<evalVars, shapeVars>>
    \/ LastSubRun /\ UNCHANGED <<evalVars, shapeVars>>

SpecCompare == CompareStart /\ [][CompareNext]_vars

----------------------------------------------------------------------------
(* The claims.                                                             *)

\* The calls of a run that fail, in the words of the error-handling design: a
\* timeout, a connection failure, a body that does not decode.
Failing(o) == o.kind \in {"timeout", "refused", "undecodable"}

\* One episode per (repeat, task) pair of the run.
OnePerPair(eps, repeats, n) ==
    \A rr \in 0..(repeats - 1) : \A i \in 0..(n - 1) :
        Cardinality({p \in 1..Len(eps) :
            eps[p].repeat_index = rr /\ eps[p].task_index = i}) = 1

\* C1: in run_eval a failing call is absorbed: it yields one episode with
\* ok = false and error set, no exception leaves run_eval (eval.py ends with an
\* exception only before its first call), and the finished run holds exactly
\* one episode for each (repeat, task) pair: total_calls = max(1, repeat) * N.
C1_FailingCallAbsorbed ==
    /\ Len(episodes) = Len(wire)
    /\ \A p \in 1..Len(episodes) :
        Failing(wire[p]) => ~episodes[p].ok /\ "error" \in DOMAIN episodes[p]
    /\ pc = "crashed" => wire = <<>>
    /\ pc = "calls" => raised = ""
    /\ pc = "done" =>
        /\ raised = ""
        /\ out_file # <<>>
        /\ out_file[1].episodes = episodes
        /\ Len(episodes) = Max(1, args.repeat) * Len(tasks)
        /\ out_file[1].summary.total_calls = Max(1, args.repeat) * Len(tasks)
        /\ OnePerPair(episodes, Max(1, args.repeat), Len(tasks))

\* A finished run of four calls in which a timeout, a refused connection and
\* an undecodable body were each followed by a call that went through.
C1_Witness ==
    /\ pc = "done"
    /\ Len(episodes) = 4
    /\ {wire[p].kind : p \in 1..3} = {"timeout", "refused", "undecodable"}
    /\ episodes[4].ok

\* C2: for every episode appended by run_eval, ok is true exactly when the call
\* got HTTP status 200 and its body passed shape validation; a call that raised
\* has error set and ok false.
C2_OkIffStatus200AndShape ==
    \A p \in 1..Len(episodes) :
        /\ episodes[p].ok <=>
            /\ wire[p].kind = "response"
            /\ wire[p].status = 200
            /\ validate_actions_shape(wire[p].body)[1]
        /\ episodes[p].ok =>
            /\ "status" \in DOMAIN episodes[p] /\ episodes[p].status = 200
            /\ episodes[p].shape_ok
        /\ wire[p].kind # "response" =>
            "error" \in DOMAIN episodes[p] /\ ~episodes[p].ok

\* A run holding an ok episode, a status-200 episode whose shape failed, and an
\* episode of another status whose shape passed.
C2_Witness ==
    /\ \E p \in 1..Len(episodes) : episodes[p].ok
    /\ \E p \in 1..Len(episodes) :
        wire[p].kind = "response" /\ wire[p].status = 200 /\ ~episodes[p].shape_ok
    /\ \E p \in 1..Len(episodes) :
        wire[p].kind = "response" /\ wire[p].status # 200 /\ episodes[p].shape_ok

\* C3: the episodes stand in repeat-major, task-minor order: there is one per
\* call issued, and the episode at position p (from 0) has repeat_index =
\* p div N and task_index = p mod N for N tasks, whatever the earlier calls
\* came to.
C3_RepeatMajorOrder ==
    /\ Len(episodes) = Len(wire)
    /\ \A p \in 1..Len(episodes) :
        /\ episodes[p].repeat_index = (p - 1) \div Len(tasks)
        /\ episodes[p].task_index = (p - 1) % Len(tasks)
        /\ episodes[p].task_id = tasks[((p - 1) % Len(tasks)) + 1].task_id

\* repeat = 2 over two tasks A, B, the first call failing: A@0, B@0, A@1, B@1.
C3_Witness ==
    /\ pc = "done"
    /\ Len(tasks) = 2
    /\ args.repeat = 2
    /\ Failing(wire[1])
    /\ [p \in 1..4 |-> <<episodes[p].task_index, episodes[p].repeat_index>>]
        = <<(<<0, 0>>), (<<1, 0>>), (<<0, 1>>), (<<1, 1>>)>>

\* Every call of the run so far got HTTP status 500.
AllCalls500 ==
    \A p \in 1..Len(wire) :
        wire[p].kind \in {"response", "undecodable"} /\ wire[p].status = 500

\* C7 as stated: when the agent returns HTTP 500 for all calls, whatever the
\* response body is, every CallResult has ok = false and status = 500, and the
\* summary has ok_rate = 0.0.
C7_AsStated ==
    AllCalls500 =>
        /\ \A p \in 1..Len(episodes) :
            /\ ~episodes[p].ok
            /\ "status" \in DOMAIN episodes[p]
            /\ episodes[p].status = 500
        /\ pc = "done" => out_file[1].summary.ok_rate = Zero

\* C7, amended: when the agent returns HTTP 500 for all calls, every CallResult
\* has ok = false and the summary has ok_rate = 0.0; status = 500 is recorded
\* for every call whose body decodes as JSON, and a call whose body does not
\* decode has error set and no status.
C7_Http500NeverOk ==
    AllCalls500 =>
        /\ \A p \in 1..Len(episodes) :
            /\ ~episodes[p].ok
            /\ wire[p].kind = "response" =>
                "status" \in DOMAIN episodes[p] /\ episodes[p].status = 500
            /\ wire[p].kind = "undecodable" =>
                "status" \notin DOMAIN episodes[p] /\ "error" \in DOMAIN episodes[p]
        /\ pc = "done" => out_file[1].summary.ok_rate = Zero

\* A finished run whose calls all got 500, one with a well-shaped JSON body and
\* one with a body that is not JSON.
C7_Witness ==
    /\ pc = "done"
    /\ AllCalls500
    /\ \E p \in 1..Len(wire) : wire[p].kind = "response" /\ episodes[p].shape_ok
    /\ \E p \in 1..Len(wire) : wire[p].kind = "undecodable"

\* C10: the RunSummary is derived from the episode sequence: total_calls is
\* the number of episodes, ok_calls the number of episodes with ok = true (so
\* 0 <= ok_calls <= total_calls and ok_rate lies in [0, 1]), and a run of zero
\* episodes has avg_latency_ms = 0.0 and ok_rate = 0.0.
C10_SummaryOfEpisodes ==
    pc = "done" =>
        LET eps == out_file[1].episodes
            sum == out_file[1].summary
        IN  /\ sum.total_calls = Len(eps)
            /\ sum.ok_calls = Cardinality({p \in 1..Len(eps) : eps[p].ok})
            /\ 0 <= sum.ok_calls /\ sum.ok_calls <= sum.total_calls
            /\ sum.ok_rate.den > 0
            /\ 0 <= sum.ok_rate.num /\ sum.ok_rate.num <= sum.ok_rate.den
            /\ eps # <<>> =>
                sum.ok_rate.num * sum.total_calls = sum.ok_calls * sum.ok_rate.den
            /\ eps = <<>> => sum.avg_latency_ms = 0 /\ sum.ok_rate = Zero

\* A finished run over an empty tasks list: no episode at all.
C10_Witness ==
    /\ pc = "done"
    /\ args.tasks_file # NoFile
    /\ out_file[1].episodes = <<>>
    /\ out_file[1].summary.total_calls = 0

\* An actions element the shape contract rejects, in the words of the claim:
\* not an object, or an object whose type is present but not a string (a
\* type that is null is present).
ElementRejected(e) == e.kind # "dict" \/ e.type \notin {"absent", "str"}

BodyRejected(body) ==
    \/ body.kind # "dict"
    \/ body.actions_kind # "list"
    \/ \E i \in 1..Len(body.actions) : ElementRejected(body.actions[i])

FirstRejected(body) ==
    CHOOSE i \in 1..Len(body.actions) :
        /\ ElementRejected(body.actions[i])
        /\ \A j \in 1..(i - 1) : ~ElementRejected(body.actions[j])

\* C6 as stated: validate_actions_shape returns false for every body that is
\* not an object, whose actions field is missing or not a list, that has a
\* non-object element in actions, or that has an element whose type is present
\* but not a string (a null type included), the message naming the first
\* offending index; for every other body it returns (true, "ok").
C6_AsStated ==
    verdict # <<>> =>
        IF BodyRejected(payload)
        THEN /\ verdict[1] = FALSE
             /\ (payload.kind = "dict" /\ payload.actions_kind = "list") =>
                    verdict[2] \in
                        {"actions[" \o ToString(FirstRejected(payload) - 1) \o tail :
                            tail \in {"] is not an object",
                                      "].type must be a string when present"}}
        ELSE verdict = <<TRUE, "ok">>

ListShaped(file) == file.kind = "list" \/ (file.kind = "dict" /\ file.tasks_kind = "list")

\* The positions of the entries of a tasks file that are objects, in file order.
ObjectPositions(data) ==
    SelectSeq([i \in 1..Len(data) |-> i], LAMBDA i : data[i].kind = "dict")

\* C8 as stated: for every tasks file that is a list or an object with a tasks
\* list, load_tasks returns one Task per entry that is an object, in file
\* order, and drops every other entry without raising, whatever the field
\* values of the retained entries; any other top-level shape fails with the
\* format error and yields no tasks.
C8_AsStated ==
    pc \in {"loaded", "crashed"} =>
        LET data == args.tasks_file.data
            objs == ObjectPositions(data)
        IN  IF ListShaped(args.tasks_file)
            THEN /\ pc = "loaded"
                 /\ raised = ""
                 /\ Len(tasks) = Len(objs)
                 /\ \A k \in 1..Len(tasks) :
                        /\ tasks[k].task_id =
                            (IF data[objs[k]].task_id = StrV("A") THEN "A"
                             ELSE "task-" \o ToString(objs[k] - 1))
                        /\ tasks[k].history =
                            (IF data[objs[k]].history.kind = "list"
                             THEN data[objs[k]].history.n ELSE 0)
            ELSE pc = "crashed" /\ raised = FormatError /\ tasks = <<>>

\* A --runs token that is valid, in the words of the claim: it has a colon, and
\* what stands before the first colon and what stands after it are both
\* non-empty after trimming.
ValidToken(raw) ==
    \E k \in 1..Len(raw) :
        /\ raw[k] = ":"
        /\ \A j \in 1..(k - 1) : raw[j] # ":"
        /\ \E j \in 1..(k - 1) : raw[j] # " "
        /\ \E j \in (k + 1)..Len(raw) : raw[j] # " "

\* C4: the configurations are run one after another in input order, and the
\* first sub-run that exits non-zero ends the comparison with that same exit
\* code: no later configuration is launched and compare_summary.json is not
\* written.
C4_FirstFailureAborts ==
    /\ Len(procs) = Len(launched)
    /\ launched = SubSeq(run_specs, 1, Len(launched))
    /\ \A i \in 1..Len(procs) :
        /\ i < Len(procs) => procs[i].returncode = 0
        /\ procs[i].returncode # 0 =>
            /\ cpc = "exited"
            /\ exit_code = <<procs[i].returncode>>
            /\ summary_file = <<>>
            /\ summary_rows = [j \in 1..(i - 1) |-> summary_rows[j]]

\* Two configurations, the first sub-run exiting 2: the second is not launched.
C4_Witness ==
    /\ cpc = "exited"
    /\ Len(run_specs) = 2
    /\ Len(launched) = 1
    /\ procs[1].returncode = 2
    /\ exit_code = <<2>>

\* The rows of the configurations in input order, each from the file its own
\* sub-run wrote.
InputRows ==
    [i \in 1..Len(procs) |-> Row(run_specs[i], SubRunFile(procs[i].outcomes))]

Injections(n) == {f \in [1..n -> 1..n] : \A a, b \in 1..n : f[a] = f[b] => a = b}

\* C5: when every sub-run exits 0, compare_summary.json holds exactly one row
\* per input configuration, sorted by descending ok_rate, then ascending
\* avg_latency_ms, and rows equal on both keys keep their input order.
C5_SummarySortedStable ==
    cpc = "done" =>
        /\ summary_file # <<>>
        /\ Len(summary_file[1]) = Len(runs)
        /\ \E f \in Injections(Len(runs)) :
            /\ \A k \in 1..Len(runs) : summary_file[1][k] = InputRows[f[k]]
            /\ \A k, l \in 1..Len(runs) : k < l =>
                LET a == summary_file[1][k]
                    b == summary_file[1][l]
                IN  /\ ~FracLess(a.ok_rate, b.ok_rate)
                    /\ a.ok_rate = b.ok_rate => a.avg_latency_ms <= b.avg_latency_ms
                    /\ (a.ok_rate = b.ok_rate /\ a.avg_latency_ms = b.avg_latency_ms)
                        => f[k] < f[l]

\* Two configurations with equal ok_rate, the second the faster: its row comes
\* first in the summary.
C5_Witness ==
    /\ cpc = "done"
    /\ Len(runs) = 2
    /\ run_specs[1].provider # run_specs[2].provider
    /\ InputRows[1].ok_rate = InputRows[2].ok_rate
    /\ InputRows[1].ok_rate.num > 0
    /\ InputRows[1].avg_latency_ms > InputRows[2].avg_latency_ms
    /\ summary_file[1][1].provider = run_specs[2].provider

\* C9: if any --runs token is invalid, the comparator exits non-zero before
\* any sub-run is launched and before the output directory or any file is
\* written, wherever the invalid token stands.
C9_InvalidTokenFailsFast ==
    (\E i \in 1..Len(runs) : ~ValidToken(runs[i])) =>
        /\ launched = <<>>
        /\ procs = <<>>
        /\ ~out_dir
        /\ DOMAIN files = {}
        /\ summary_file = <<>>
        /\ cpc \in {"start", "exited"}
        /\ cpc = "exited" => exit_code # <<>> /\ exit_code[1] # 0

\* A valid token followed by an invalid one: the comparator has exited.
C9_Witness ==
    /\ cpc = "exited"
    /\ Len(runs) = 2
    /\ ValidToken(runs[1])
    /\ ~ValidToken(runs[2])
    /\ exit_code = <<1>>

\* C11 as stated: after a comparison in which every sub-run exits 0, whatever
\* the input list of configurations (distinct configurations of equal slug and
\* repeated configurations included), each row's fields are the summary of its
\* own configuration's sub-run, and the file the row names still holds the
\* RunResult of a sub-run of that row's own configuration.
C11_AsStated ==
    cpc = "done" =>
        \E f \in Injections(Len(runs)) :
            \A k \in 1..Len(runs) :
                LET row == summary_file[1][k]
                IN  /\ row = InputRows[f[k]]
                    /\ row.out \in DOMAIN files
                    /\ \E j \in 1..Len(runs) :
                        /\ run_specs[j].provider = row.provider
                        /\ run_specs[j].model = row.model
                        /\ files[row.out] = SubRunFile(procs[j].outcomes)

====
